---- MODULE Spec2Model ----
(***************************************************************************)
(* redux-translations: the translations middleware of src/src/index.ts     *)
(* (the revision with initialState and patchState, lines 241-535).         *)
(*                                                                         *)
(* The module-level store __state, the set of mounted components and the   *)
(* promises returned by requestFunc that have not settled yet are the      *)
(* state.  One action is one run of a handler: a dispatch through the      *)
(* middleware, the then-callback of a settled promise, a mount or an       *)
(* unmount.  Every handler is written as a function on a record m that     *)
(* holds what the handler can change, statement by statement; m.effects    *)
(* lists, in order, the calls the handler made to the outside               *)
(* (callbacks, requestFunc, forceUpdate, next, throw), each with the store *)
(* as it was at the moment of the call.                                    *)
(***************************************************************************)
EXTENDS FiniteSets, Naturals, Sequences, TLC

VARIABLES
    __state,               \* let __state: dictionaries, currentLang, loadingLang
    options,               \* const options of the middleware closure
    translatedComponents,  \* const translatedComponents = new Set()
    rendered,              \* the props each component got at its last render
    pending,               \* promises of requestFunc not settled yet
    issued,                \* number of requestFunc calls made so far
    requests,              \* history: targets of the accepted switch requests
    resolved,              \* history: languages some load has resolved for
    lastSwitch,            \* history: target of the last switch request, accepted or not
    initial,               \* the initialState the coordinator was created with
    issuedBefore,          \* history: requestFunc calls made before the coordinator was created
    storeOps,              \* history: calls of createTranslationsMiddleware and patchState
    op,                    \* history: the handler that ran last
    pre,                   \* history: __state when that handler started
    preRendered,           \* history: rendered when that handler started
    effects,               \* history: the outside calls of that handler, in order
    log                    \* history: the newest load of each language and the
                           \* callbacks of each accepted request, where recorded

vars == <<__state, options, translatedComponents, rendered, pending, issued, requests,
          resolved, lastSwitch, initial, issuedBefore, storeOps, op, pre, preRendered,
          effects, log>>

(***************************************************************************)
(* Bounds of the model.                                                    *)
(***************************************************************************)
\* accepted switch requests in one behaviour
MaxRequests == 3

\* accepted switch requests in one behaviour that also patches and re-creates
MaxStoreRequests == 1

\* calls of patchState and of createTranslationsMiddleware after the first
MaxStoreOps == 1

\* accepted switch requests in one behaviour with two components
MaxViewRequests == 2

\* accepted switch requests in one behaviour with failures and patches
MaxLoaderRequests == 2

(***************************************************************************)
(* Values.                                                                 *)
(***************************************************************************)
\* language codes the application dispatches
Langs == {"en", "it"}

\* dictionaries a loader resolves with (key-value tables, hence truthy)
Tables == {"t1", "t2"}

\* wrapped components
Comps == {"c1", "c2"}

\* the component that mounts in the behaviours where one is enough
OneComp == {"c1"}

null == "null"

undefined == "undefined"

\* the empty mapping {} of render()
EmptyObject == "{}"

\* JavaScript truthiness of a cached value
Truthy(v) == v \notin {undefined, null}

\* typeof of a payload
TypeOf(payload) == payload.t

String(s) == [v |-> s, t |-> "string"]

\* payloads a caller may pass: language codes and non-strings
Payloads == {String(l) : l \in Langs} \cup
            {[v |-> "1", t |-> "number"], [v |-> undefined, t |-> "undefined"]}

switchLangActionType == "REDUX_TRANSLATIONS_SWITCH_LANG"

switchLangActionCreator(language) ==
    [payload |-> language, type |-> switchLangActionType]

\* an action of the application itself
OtherAction == [payload |-> [v |-> undefined, t |-> "undefined"], type |-> "some-sync-type"]

Actions == {switchLangActionCreator(p) : p \in Payloads} \cup {OtherAction}

(***************************************************************************)
(* Options.                                                                *)
(***************************************************************************)
OptionKeys == {"cache", "updateCacheOnSwitch", "startSwitchCallback", "endSwitchCallback"}

\* for the two callbacks the value is whether typeof gives "function"
defaultOptions ==
    [cache |-> TRUE, updateCacheOnSwitch |-> FALSE,
     startSwitchCallback |-> FALSE, endSwitchCallback |-> FALSE]

\* the passedOptions objects: any subset of the keys
PassedOptions == UNION {[K -> BOOLEAN] : K \in SUBSET OptionKeys}

\* { ...defaultOptions, ...passedOptions }
MergeOptions(passedOptions) ==
    [k \in OptionKeys |->
        IF k \in DOMAIN passedOptions THEN passedOptions[k] ELSE defaultOptions[k]]

defaultState ==
    [dictionaries |-> [l \in Langs |-> undefined],
     currentLang |-> null,
     loadingLang |-> null]

(***************************************************************************)
(* Statements of the handlers, on m = [state, pending, issued, requests,   *)
(* effects, rendered, options]: m.options are the options of the closure   *)
(* the handler belongs to.  An assignment to __state is listed in          *)
(* m.effects too, so the order of writes and calls inside one handler can  *)
(* be read off.                                                            *)
(***************************************************************************)
Event(e, lang, dict, comps, state) ==
    [e |-> e, lang |-> lang, dict |-> dict, comps |-> comps, state |-> state]

Emit(m, e, lang, dict, comps) ==
    [m EXCEPT !.effects = Append(@, Event(e, lang, dict, comps, m.state))]

\* __state.currentLang = lang
SetCurrentLang(m, lang) ==
    Emit([m EXCEPT !.state.currentLang = lang], "currentLang=", lang, undefined, {})

\* __state.loadingLang = lang
SetLoadingLang(m, lang) ==
    Emit([m EXCEPT !.state.loadingLang = lang], "loadingLang=", lang, undefined, {})

\* __state.dictionaries[lang] = dictionary
SetDictionary(m, lang, dictionary) ==
    Emit([m EXCEPT !.state.dictionaries[lang] = dictionary],
         "dictionaries[]=", lang, dictionary, {})

\* render() that looks the dictionary up in __state itself, not in __state.dictionaries
renderWrongLookup(state) ==
    [currentLang |-> state.currentLang,
     loadingLang |-> state.loadingLang,
     dictionary |-> EmptyObject]

\* render() of the wrapping component: the props it passes down
render(state) ==
    [currentLang |-> state.currentLang,
     loadingLang |-> state.loadingLang,
     dictionary |->
        IF Truthy(state.currentLang) /\ Truthy(state.dictionaries[state.currentLang])
        THEN state.dictionaries[state.currentLang]
        ELSE EmptyObject]

\* updateTranslatedComponents that updates every component, mounted or not
updateEveryComponent(m) ==
    Emit([m EXCEPT !.rendered = [c \in Comps |-> render(m.state)]],
         "forceUpdate", null, undefined, Comps)

\* Promise.all(Array.from(translatedComponents.values()).map(comp => ... forceUpdate))
updateTranslatedComponents(m) ==
    Emit([m EXCEPT !.rendered = [c \in Comps |->
                IF c \in translatedComponents THEN render(m.state) ELSE @[c]]],
         "forceUpdate", null, undefined, translatedComponents)

\* requestFunc(lang): one more promise in flight; kind names its then-callback
requestFunc(m, lang, kind) ==
    LET load == [options |-> m.options, lang |-> lang, kind |-> kind,
                 id |-> m.issued + 1, req |-> Len(m.requests)]
    IN  Emit([m EXCEPT !.pending = @ \cup {load}, !.issued = @ + 1],
             "requestFunc", lang, undefined, {})

\* if (typeof options.startSwitchCallback === "function") m.options.startSwitchCallback(...)
startSwitchCallback(m, switchingLang) ==
    IF m.options.startSwitchCallback
    THEN Emit(m, "startSwitchCallback", switchingLang, undefined, {})
    ELSE m

\* if (typeof options.endSwitchCallback === "function") m.options.endSwitchCallback(...)
endSwitchCallback(m, switchingLang, dictionary) ==
    IF m.options.endSwitchCallback
    THEN Emit(m, "endSwitchCallback", switchingLang, dictionary, {})
    ELSE m

\* return next(action)
next(m, action) == Emit(m, "next", action.payload.v, undefined, {})

\* throw new Error(...)
throw(m) == Emit(m, "throw", null, undefined, {})

\* CacheHit that leaves loadingLang as it was
CacheHitKeepsLoading(m, switchingLang) ==
    LET m1 == SetCurrentLang(m, switchingLang)
        m3 == endSwitchCallback(m1, switchingLang, m1.state.dictionaries[switchingLang])
    IN  IF m.options.updateCacheOnSwitch
        THEN requestFunc(m3, switchingLang, "refresh")
        ELSE m3

\* CacheHit that calls endSwitchCallback before it writes the store
CacheHitEndFirst(m, switchingLang) ==
    LET m1 == endSwitchCallback(m, switchingLang, m.state.dictionaries[switchingLang])
        m2 == SetCurrentLang(m1, switchingLang)
        m3 == SetLoadingLang(m2, null)
    IN  IF m.options.updateCacheOnSwitch
        THEN requestFunc(m3, switchingLang, "refresh")
        ELSE m3

\* CacheHit that issues the background load before it calls endSwitchCallback
CacheHitRefreshFirst(m, switchingLang) ==
    LET m1 == SetCurrentLang(m, switchingLang)
        m2 == SetLoadingLang(m1, null)
        m3 == IF m.options.updateCacheOnSwitch
              THEN requestFunc(m2, switchingLang, "refresh")
              ELSE m2
    IN  endSwitchCallback(m3, switchingLang, m3.state.dictionaries[switchingLang])

\* the branch "if already loaded and using cache"
CacheHit(m, switchingLang) ==
    LET m1 == SetCurrentLang(m, switchingLang)
        m2 == SetLoadingLang(m1, null)
        m3 == endSwitchCallback(m2, switchingLang, m2.state.dictionaries[switchingLang])
    IN  IF m.options.updateCacheOnSwitch
        THEN requestFunc(m3, switchingLang, "refresh")
        ELSE m3

\* CacheMiss that also drops the current language while loading
CacheMissClearsCurrent(m, switchingLang) ==
    LET m1 == SetLoadingLang(SetCurrentLang(m, null), switchingLang)
    IN  requestFunc(m1, switchingLang, "miss")

\* the branch "if not using cache or didn't loaded lang before"
CacheMiss(m, switchingLang) ==
    LET m1 == SetLoadingLang(m, switchingLang)
    IN  requestFunc(m1, switchingLang, "miss")

\* the cache test without "&& options.cache"
IsCacheHitIgnoreOption(m, switchingLang) ==
    Truthy(m.state.dictionaries[switchingLang])

\* __state.dictionaries[switchingLang] && options.cache
IsCacheHit(m, switchingLang) ==
    Truthy(m.state.dictionaries[switchingLang]) /\ m.options.cache

\* AcceptedSwitch that calls startSwitchCallback after the cache branch
AcceptedSwitchStartLate(m, action) ==
    LET switchingLang == action.payload.v
        m0 == [m EXCEPT !.requests = Append(@, switchingLang)]
        m1 == IF IsCacheHit(m0, switchingLang)
              THEN CacheHit(m0, switchingLang)
              ELSE CacheMiss(m0, switchingLang)
        m2 == startSwitchCallback(m1, switchingLang)
        m3 == updateTranslatedComponents(m2)
    IN  next(m3, action)

\* AcceptedSwitch that forwards the action before it updates the components
AcceptedSwitchNextFirst(m, action) ==
    LET switchingLang == action.payload.v
        m0 == [m EXCEPT !.requests = Append(@, switchingLang)]
        m1 == startSwitchCallback(m0, switchingLang)
        m2 == IF IsCacheHit(m1, switchingLang)
              THEN CacheHit(m1, switchingLang)
              ELSE CacheMiss(m1, switchingLang)
        m3 == next(m2, action)
    IN  updateTranslatedComponents(m3)

\* AcceptedSwitch that updates the components before it calls the loader of a miss
AcceptedSwitchUpdateBeforeLoad(m, action) ==
    LET switchingLang == action.payload.v
        m0 == [m EXCEPT !.requests = Append(@, switchingLang)]
        m1 == startSwitchCallback(m0, switchingLang)
        m2 == IF IsCacheHit(m1, switchingLang)
              THEN updateTranslatedComponents(CacheHit(m1, switchingLang))
              ELSE requestFunc(updateTranslatedComponents(
                        SetLoadingLang(m1, switchingLang)), switchingLang, "miss")
    IN  next(m2, action)

\* the body run for an accepted switch request
AcceptedSwitch(m, action) ==
    LET switchingLang == action.payload.v
        m0 == [m EXCEPT !.requests = Append(@, switchingLang)]
        m1 == startSwitchCallback(m0, switchingLang)
        m2 == IF IsCacheHit(m1, switchingLang)
              THEN CacheHit(m1, switchingLang)
              ELSE CacheMiss(m1, switchingLang)
        m3 == updateTranslatedComponents(m2)
    IN  next(m3, action)

\* middleware without the test for the current language
middlewareNoCurrentTest(m, action) ==
    IF action.type = switchLangActionType
    THEN IF TypeOf(action.payload) # "string"
         THEN throw(m)
         ELSE AcceptedSwitch(m, action)
    ELSE next(m, action)

\* middleware that checks the payload's type after startSwitchCallback
middlewareLateTypeCheck(m, action) ==
    IF action.type = switchLangActionType
    THEN IF action.payload.v = m.state.currentLang
         THEN next(m, action)
         ELSE IF TypeOf(action.payload) # "string"
              THEN throw(startSwitchCallback(m, action.payload.v))
              ELSE AcceptedSwitch(m, action)
    ELSE next(m, action)

\* middleware that updates the components for every action
middlewareUpdateAlways(m, action) ==
    IF action.type = switchLangActionType
    THEN IF TypeOf(action.payload) # "string"
         THEN throw(m)
         ELSE IF action.payload.v = m.state.currentLang
              THEN next(m, action)
              ELSE AcceptedSwitch(m, action)
    ELSE next(updateTranslatedComponents(m), action)

\* middleware that skips the test of currentLang when the cache is off
middlewareReloadsCurrent(m, action) ==
    IF action.type = switchLangActionType
    THEN IF TypeOf(action.payload) # "string"
         THEN throw(m)
         ELSE IF action.payload.v = m.state.currentLang /\ m.options.cache
              THEN next(m, action)
              ELSE AcceptedSwitch(m, action)
    ELSE next(m, action)

\* store => next => action => { ... }
middleware(m, action) ==
    IF action.type = switchLangActionType
    THEN IF TypeOf(action.payload) # "string"
         THEN throw(m)
         ELSE IF action.payload.v = m.state.currentLang
              THEN next(m, action)
              ELSE AcceptedSwitch(m, action)
    ELSE next(m, action)

\* thenMiss without the test of loadingLang
thenMissUnchecked(m, switchingLang, dictionary) ==
    LET m1 == SetDictionary(m, switchingLang, dictionary)
        m2 == SetCurrentLang(m1, switchingLang)
        m3 == SetLoadingLang(m2, null)
        m4 == endSwitchCallback(m3, switchingLang, dictionary)
    IN  updateTranslatedComponents(m4)

\* thenMiss that does not update the components
thenMissSilent(m, switchingLang, dictionary) ==
    LET m1 == SetDictionary(m, switchingLang, dictionary)
    IN  IF m1.state.loadingLang = switchingLang
        THEN LET m2 == SetCurrentLang(m1, switchingLang)
                 m3 == SetLoadingLang(m2, null)
             IN  endSwitchCallback(m3, switchingLang, dictionary)
        ELSE m1

\* thenMiss that sets currentLang before it stores the dictionary
thenMissCurrentFirst(m, switchingLang, dictionary) ==
    IF m.state.loadingLang = switchingLang
    THEN LET m1 == SetCurrentLang(m, switchingLang)
             m2 == SetLoadingLang(m1, null)
             m3 == SetDictionary(m2, switchingLang, dictionary)
             m4 == endSwitchCallback(m3, switchingLang, dictionary)
         IN  updateTranslatedComponents(m4)
    ELSE SetDictionary(m, switchingLang, dictionary)

\* thenMiss that stores the dictionary only when it applies the switch
thenMissStoreIfApplied(m, switchingLang, dictionary) ==
    IF m.state.loadingLang = switchingLang
    THEN LET m1 == SetDictionary(m, switchingLang, dictionary)
             m2 == SetCurrentLang(m1, switchingLang)
             m3 == SetLoadingLang(m2, null)
             m4 == endSwitchCallback(m3, switchingLang, dictionary)
         IN  updateTranslatedComponents(m4)
    ELSE m

\* thenMiss that clears loadingLang whichever language is loading
thenMissClearsLoading(m, switchingLang, dictionary) ==
    LET m1 == SetDictionary(m, switchingLang, dictionary)
    IN  IF m1.state.loadingLang = switchingLang
        THEN LET m2 == SetCurrentLang(m1, switchingLang)
                 m3 == SetLoadingLang(m2, null)
                 m4 == endSwitchCallback(m3, switchingLang, dictionary)
             IN  updateTranslatedComponents(m4)
        ELSE SetLoadingLang(m1, null)

\* thenMiss that keeps a dictionary that is already cached
thenMissKeepsCached(m, switchingLang, dictionary) ==
    LET m1 == IF Truthy(m.state.dictionaries[switchingLang])
              THEN m
              ELSE SetDictionary(m, switchingLang, dictionary)
    IN  IF m1.state.loadingLang = switchingLang
        THEN LET m2 == SetCurrentLang(m1, switchingLang)
                 m3 == SetLoadingLang(m2, null)
                 m4 == endSwitchCallback(m3, switchingLang, dictionary)
             IN  updateTranslatedComponents(m4)
        ELSE m1

\* thenMiss that gives way to another load of the same language still in flight
thenMissUnlessOtherLoad(m, switchingLang, dictionary) ==
    LET m1 == SetDictionary(m, switchingLang, dictionary)
    IN  IF /\ m1.state.loadingLang = switchingLang
           /\ \A load \in m.pending : load.lang # switchingLang
        THEN LET m2 == SetCurrentLang(m1, switchingLang)
                 m3 == SetLoadingLang(m2, null)
                 m4 == endSwitchCallback(m3, switchingLang, dictionary)
             IN  updateTranslatedComponents(m4)
        ELSE m1

\* thenMiss that updates the components whether or not it applies the switch
thenMissAlwaysUpdates(m, switchingLang, dictionary) ==
    LET m1 == SetDictionary(m, switchingLang, dictionary)
    IN  IF m1.state.loadingLang = switchingLang
        THEN LET m2 == SetCurrentLang(m1, switchingLang)
                 m3 == SetLoadingLang(m2, null)
                 m4 == endSwitchCallback(m3, switchingLang, dictionary)
             IN  updateTranslatedComponents(m4)
        ELSE updateTranslatedComponents(m1)

\* thenMiss that applies the switch and leaves loadingLang as it is
thenMissKeepsLoading(m, switchingLang, dictionary) ==
    LET m1 == SetDictionary(m, switchingLang, dictionary)
    IN  IF m1.state.loadingLang = switchingLang
        THEN LET m2 == SetCurrentLang(m1, switchingLang)
                 m4 == endSwitchCallback(m2, switchingLang, dictionary)
             IN  updateTranslatedComponents(m4)
        ELSE m1

\* the then-callback of a cache-miss load
thenMiss(m, switchingLang, dictionary) ==
    LET m1 == SetDictionary(m, switchingLang, dictionary)
    IN  IF m1.state.loadingLang = switchingLang
        THEN LET m2 == SetCurrentLang(m1, switchingLang)
                 m3 == SetLoadingLang(m2, null)
                 m4 == endSwitchCallback(m3, switchingLang, dictionary)
             IN  updateTranslatedComponents(m4)
        ELSE m1

\* thenRefresh that reports the end of a switch again
thenRefreshCallsEnd(m, switchingLang, dictionary) ==
    LET m1 == SetDictionary(m, switchingLang, dictionary)
        m2 == endSwitchCallback(m1, switchingLang, dictionary)
    IN  updateTranslatedComponents(m2)

\* the then-callback of the background load of updateCacheOnSwitch
thenRefresh(m, switchingLang, dictionary) ==
    LET m1 == SetDictionary(m, switchingLang, dictionary)
    IN  updateTranslatedComponents(m1)

(***************************************************************************)
(* patchState and createTranslationsMiddleware with an initial state.  A   *)
(* partial state object is a record of the three fields plus the set       *)
(* "given" of the keys it has; a field that is not given holds its default.*)
(***************************************************************************)
StateKeys == {"dictionaries", "currentLang", "loadingLang"}

\* the dictionaries maps a caller passes in a patch or an initial state
PassedDictionaries ==
    {[l \in Langs |-> undefined], [l \in Langs |-> IF l = "en" THEN "t1" ELSE undefined]}

\* Partial<IState<D>>: the objects a caller passes
PartialStates ==
    {x \in [dictionaries : PassedDictionaries, currentLang : Langs \cup {null},
            loadingLang : {"it", null}, given : SUBSET StateKeys] :
        /\ "currentLang" \in x.given => x.currentLang # null
        /\ "loadingLang" \in x.given => x.loadingLang # null
        /\ "dictionaries" \notin x.given => x.dictionaries = defaultState.dictionaries
        /\ "currentLang" \notin x.given => x.currentLang = defaultState.currentLang
        /\ "loadingLang" \notin x.given => x.loadingLang = defaultState.loadingLang}

\* initialState left out
NoInitialState ==
    [dictionaries |-> defaultState.dictionaries, currentLang |-> null,
     loadingLang |-> null, given |-> {}, passed |-> FALSE]

\* the initialState arguments: left out, or a partial state
InitialStates ==
    {NoInitialState} \cup
    {[dictionaries |-> x.dictionaries, currentLang |-> x.currentLang,
      loadingLang |-> x.loadingLang, given |-> x.given, passed |-> TRUE] :
        x \in PartialStates}

\* the passedOptions of a coordinator that is patched and re-created: both callbacks
CreateOptions ==
    {p \in PassedOptions :
        /\ DOMAIN p = {"startSwitchCallback", "endSwitchCallback"}
        /\ p.startSwitchCallback /\ p.endSwitchCallback}

\* __state.dictionaries = dictionaries (the whole map)
SetDictionaries(m, dictionaries) ==
    Emit([m EXCEPT !.state.dictionaries = dictionaries], "dictionaries=", null, undefined, {})

\* patchState that always updates the components
patchStateAlwaysUpdates(m, changes, updateComponents) ==
    LET m1 == IF "dictionaries" \in changes.given
              THEN SetDictionaries(m, changes.dictionaries) ELSE m
        m2 == IF "currentLang" \in changes.given
              THEN SetCurrentLang(m1, changes.currentLang) ELSE m1
        m3 == IF "loadingLang" \in changes.given
              THEN SetLoadingLang(m2, changes.loadingLang) ELSE m2
    IN  updateTranslatedComponents(m3)

\* patchState that merges the given dictionaries into the map the store holds
patchStateMergesDictionaries(m, changes, updateComponents) ==
    LET m1 == IF "dictionaries" \in changes.given
              THEN SetDictionaries(m,
                        [l \in Langs |->
                            IF changes.dictionaries[l] # undefined
                            THEN changes.dictionaries[l]
                            ELSE m.state.dictionaries[l]])
              ELSE m
        m2 == IF "currentLang" \in changes.given
              THEN SetCurrentLang(m1, changes.currentLang) ELSE m1
        m3 == IF "loadingLang" \in changes.given
              THEN SetLoadingLang(m2, changes.loadingLang) ELSE m2
    IN  IF updateComponents THEN updateTranslatedComponents(m3) ELSE m3

\* Object.entries(changes).forEach(([k, v]) => (__state[k] = v));
\* if (updateComponents) await updateTranslatedComponents()
patchState(m, changes, updateComponents) ==
    LET m1 == IF "dictionaries" \in changes.given
              THEN SetDictionaries(m, changes.dictionaries) ELSE m
        m2 == IF "currentLang" \in changes.given
              THEN SetCurrentLang(m1, changes.currentLang) ELSE m1
        m3 == IF "loadingLang" \in changes.given
              THEN SetLoadingLang(m2, changes.loadingLang) ELSE m2
    IN  IF updateComponents THEN updateTranslatedComponents(m3) ELSE m3

\* createTranslationsMiddleware that takes loadingLang from the default only
createIgnoresLoadingLang(m, passedOptions, initialState) ==
    LET m0 == Emit([m EXCEPT !.state = defaultState,
                             !.options = MergeOptions(passedOptions),
                             !.initial = initialState,
                             !.issuedBefore = m.issued],
                   "__state=", null, undefined, {})
        m1 == SetDictionaries(m0,
                IF "dictionaries" \in initialState.given
                THEN initialState.dictionaries ELSE defaultState.dictionaries)
        m2 == SetCurrentLang(m1,
                IF "currentLang" \in initialState.given /\ Truthy(initialState.currentLang)
                THEN initialState.currentLang ELSE defaultState.currentLang)
    IN  IF initialState.passed THEN m2 ELSE m0

\* createTranslationsMiddleware that keeps the store of the coordinator before
createKeepsStore(m, passedOptions, initialState) ==
    LET m0 == Emit([m EXCEPT !.options = MergeOptions(passedOptions),
                             !.initial = initialState,
                             !.issuedBefore = m.issued],
                   "__state=", null, undefined, {})
        m1 == SetDictionaries(m0,
                IF "dictionaries" \in initialState.given
                THEN initialState.dictionaries ELSE defaultState.dictionaries)
        m2 == SetCurrentLang(m1,
                IF "currentLang" \in initialState.given /\ Truthy(initialState.currentLang)
                THEN initialState.currentLang ELSE defaultState.currentLang)
        m3 == SetLoadingLang(m2,
                IF "loadingLang" \in initialState.given /\ Truthy(initialState.loadingLang)
                THEN initialState.loadingLang ELSE defaultState.loadingLang)
    IN  IF initialState.passed THEN m3 ELSE m0

\* __state = defaultState; if (initialState) each key gets
\* initialState[key] || defaultState[key]; options = {...defaultOptions, ...passedOptions}
createTranslationsMiddleware(m, passedOptions, initialState) ==
    LET m0 == Emit([m EXCEPT !.state = defaultState,
                             !.options = MergeOptions(passedOptions),
                             !.initial = initialState,
                             !.issuedBefore = m.issued],
                   "__state=", null, undefined, {})
        m1 == SetDictionaries(m0,
                IF "dictionaries" \in initialState.given
                THEN initialState.dictionaries ELSE defaultState.dictionaries)
        m2 == SetCurrentLang(m1,
                IF "currentLang" \in initialState.given /\ Truthy(initialState.currentLang)
                THEN initialState.currentLang ELSE defaultState.currentLang)
        m3 == SetLoadingLang(m2,
                IF "loadingLang" \in initialState.given /\ Truthy(initialState.loadingLang)
                THEN initialState.loadingLang ELSE defaultState.loadingLang)
    IN  IF initialState.passed THEN m3 ELSE m0

(***************************************************************************)
(* The state machine.                                                      *)
(***************************************************************************)
NoAction == [payload |-> [v |-> undefined, t |-> "undefined"], type |-> "none"]

NoLoad == [options |-> defaultOptions, lang |-> null, kind |-> "none", id |-> 0, req |-> 0]

\* what a component that is not mounted shows
NotRendered == [currentLang |-> null, loadingLang |-> null, dictionary |-> undefined]

Op(kind, action, load, value, comp) ==
    [kind |-> kind, load |-> load, action |-> action, value |-> value, comp |-> comp]

Machine ==
    [options |-> options, rendered |-> rendered, pending |-> pending,
     issued |-> issued, requests |-> requests, lastSwitch |-> lastSwitch,
     initial |-> initial, issuedBefore |-> issuedBefore, storeOps |-> storeOps,
     effects |-> <<>>, state |-> __state]

Commit(m) ==
    /\ __state' = m.state
    /\ pending' = m.pending
    /\ issued' = m.issued
    /\ requests' = m.requests
    /\ effects' = m.effects
    /\ rendered' = m.rendered
    /\ initial' = m.initial
    /\ issuedBefore' = m.issuedBefore
    /\ lastSwitch' = m.lastSwitch
    /\ storeOps' = m.storeOps
    /\ preRendered' = rendered
    /\ pre' = __state

\* nothing recorded; on says whether the behaviour records at all
EmptyLog(on) ==
    [on |-> on,
     latest |-> [l \in Langs |-> [id |-> 0, value |-> undefined, done |-> FALSE]],
     callbacks |-> <<>>]

\* the number of events named e among the outside calls of the handler that ends
Made(e) == Cardinality({i \in DOMAIN effects' : effects'[i].e = e})

\* the log after a handler: a load the handler issued is the newest of its language,
\* a result belongs to the newest load if load is that one, and the callbacks the
\* handler made go to the request that was accepted (a dispatch) or to the request
\* of load (a resolution)
Record(load, value) ==
    log' =
        IF ~log.on THEN log
        ELSE LET accepted == Len(requests') > Len(requests)
                 made == [start |-> Made("startSwitchCallback"),
                          end |-> Made("endSwitchCallback")]
             IN  [on |-> TRUE,
                  latest |->
                    [l \in Langs |->
                        IF \E new \in pending' \ pending : new.lang = l
                        THEN [id |-> issued', value |-> undefined, done |-> FALSE]
                        ELSE IF load.lang = l /\ load.id = log.latest[l].id
                        THEN [id |-> load.id, value |-> value, done |-> TRUE]
                        ELSE log.latest[l]],
                  callbacks |->
                    IF accepted THEN Append(log.callbacks, made)
                    ELSE IF load.req \in DOMAIN log.callbacks
                    THEN [log.callbacks EXCEPT ![load.req] =
                            [start |-> @.start + made.start, end |-> @.end + made.end]]
                    ELSE log.callbacks]

\* createTranslationsMiddleware(requestFunc, passedOptions) without initialState
Constructed ==
    /\ __state = defaultState
    /\ \E passedOptions \in PassedOptions : options = MergeOptions(passedOptions)
    /\ translatedComponents = {}
    /\ rendered = [c \in Comps |-> NotRendered]
    /\ pending = {}
    /\ issued = 0
    /\ requests = <<>>
    /\ resolved = {}
    /\ lastSwitch = null
    /\ initial = NoInitialState
    /\ issuedBefore = 0
    /\ storeOps = 0
    /\ op = Op("init", NoAction, NoLoad, undefined, null)
    /\ pre = defaultState
    /\ preRendered = [c \in Comps |-> NotRendered]
    /\ effects = <<>>

\* the coordinator as constructed, in a behaviour that records no log
Init ==
    /\ Constructed
    /\ log = EmptyLog(FALSE)

\* the coordinator as constructed, in a behaviour that records the log
InitRecorded ==
    /\ Constructed
    /\ log = EmptyLog(TRUE)

\* store.dispatch(action) reaching the middleware
Dispatch(action) ==
    LET m0 == IF action.type = switchLangActionType /\ TypeOf(action.payload) = "string"
              THEN [Machine EXCEPT !.lastSwitch = action.payload.v]
              ELSE Machine
        m  == middleware(m0, action)
    IN  /\ Len(m.requests) <= MaxRequests
        /\ Commit(m)
        /\ op' = Op("dispatch", action, NoLoad, undefined, null)
        /\ Record(NoLoad, undefined)
        /\ UNCHANGED <<options, translatedComponents, resolved>>

\* Resolve that runs the then-callback of a background load for every load
ResolveAsRefresh(load, dictionary) ==
    /\ load \in pending
    /\ Commit(thenRefresh([Machine EXCEPT !.pending = @ \ {load},
                                          !.options = load.options],
                          load.lang, dictionary))
    /\ op' = Op("resolve", NoAction, load, dictionary, null)
    /\ resolved' = resolved \cup {load.lang}
    /\ Record(load, dictionary)
    /\ UNCHANGED <<options, translatedComponents>>

\* a promise of requestFunc resolves with dictionary: its then-callback runs
Resolve(load, dictionary) ==
    /\ load \in pending
    /\ LET m0 == [Machine EXCEPT !.pending = @ \ {load}, !.options = load.options]
           m  == IF load.kind = "miss"
                 THEN thenMiss(m0, load.lang, dictionary)
                 ELSE thenRefresh(m0, load.lang, dictionary)
       IN  Commit(m)
    /\ op' = Op("resolve", NoAction, load, dictionary, null)
    /\ resolved' = resolved \cup {load.lang}
    /\ Record(load, dictionary)
    /\ UNCHANGED <<options, translatedComponents>>

\* a rejection handled by a catch that gives up the switch
RejectClearsLoading(load) ==
    /\ load \in pending
    /\ Commit(SetLoadingLang([Machine EXCEPT !.pending = @ \ {load}], null))
    /\ op' = Op("reject", NoAction, load, undefined, null)
    /\ UNCHANGED <<options, translatedComponents, resolved, log>>

\* a rejection handled by a catch that calls the loader again
RejectRetries(load) ==
    /\ load \in pending
    /\ Commit(requestFunc([Machine EXCEPT !.pending = @ \ {load}], load.lang, load.kind))
    /\ op' = Op("reject", NoAction, load, undefined, null)
    /\ UNCHANGED <<options, translatedComponents, resolved, log>>

\* a promise of requestFunc rejects: no handler is attached
Reject(load) ==
    /\ load \in pending
    /\ Commit([Machine EXCEPT !.pending = @ \ {load}])
    /\ op' = Op("reject", NoAction, load, undefined, null)
    /\ UNCHANGED <<options, translatedComponents, resolved, log>>

\* the first render() and componentDidMount
Mount(comp) ==
    /\ comp \notin translatedComponents
    /\ translatedComponents' = translatedComponents \cup {comp}
    /\ Commit([Machine EXCEPT !.rendered[comp] = render(__state)])
    /\ op' = Op("mount", NoAction, NoLoad, undefined, comp)
    /\ UNCHANGED <<options, resolved, log>>

\* componentWillUnmount
Unmount(comp) ==
    /\ comp \in translatedComponents
    /\ translatedComponents' = translatedComponents \ {comp}
    /\ Commit([Machine EXCEPT !.rendered[comp] = NotRendered])
    /\ op' = Op("unmount", NoAction, NoLoad, undefined, comp)
    /\ UNCHANGED <<options, resolved, log>>

\* patchState(changes, updateComponents); FALSE also stands for the argument left out
PatchState(changes, updateComponents) ==
    /\ storeOps < MaxStoreOps
    /\ Commit(patchState([Machine EXCEPT !.storeOps = @ + 1], changes, updateComponents))
    /\ op' = Op("patchState", [payload |-> changes, type |-> "patchState"], NoLoad,
                IF updateComponents THEN "updateComponents" ELSE undefined, null)
    /\ UNCHANGED <<options, translatedComponents, resolved, log>>

\* createTranslationsMiddleware(requestFunc, passedOptions, initialState) called again:
\* mounted components and unsettled promises of the earlier coordinator stay
Create(passedOptions, initialState) ==
    /\ storeOps < MaxStoreOps
    /\ LET m == createTranslationsMiddleware([Machine EXCEPT !.storeOps = @ + 1],
                                             passedOptions, initialState)
       IN  /\ Commit(m)
           /\ options' = m.options
    /\ op' = Op("create", [payload |-> initialState, type |-> "create"], NoLoad,
                undefined, null)
    /\ UNCHANGED <<translatedComponents, resolved, log>>

\* a dispatch in a behaviour that also patches and re-creates
StoreDispatch(action) ==
    /\ Dispatch(action)
    /\ Len(requests') <= MaxStoreRequests

Next ==
    \/ \E action \in Actions : Dispatch(action)
    \/ \E load \in pending, dictionary \in Tables : Resolve(load, dictionary)
    \/ \E load \in pending : Reject(load)
    \/ \E comp \in OneComp : Mount(comp)
    \/ \E comp \in OneComp : Unmount(comp)

Spec == Init /\ [][Next]_vars

\* the first coordinator of a behaviour that also patches and re-creates
InitStore ==
    /\ Init
    /\ options \in {MergeOptions(p) : p \in CreateOptions}

\* requests for a language, loads that resolve with one table, one component
\* that mounts, and the store operations
NextStore ==
    \/ \E language \in Langs : StoreDispatch(switchLangActionCreator(String(language)))
    \/ \E load \in pending : Resolve(load, "t2")
    \/ \E comp \in OneComp : Mount(comp)
    \/ \E changes \in PartialStates, updateComponents \in BOOLEAN :
            PatchState(changes, updateComponents)
    \/ \E passedOptions \in CreateOptions, initialState \in InitialStates :
            Create(passedOptions, initialState)

SpecStore == InitStore /\ [][NextStore]_vars

\* a dispatch in a behaviour with two components
ViewDispatch(action) ==
    /\ Dispatch(action)
    /\ Len(requests') <= MaxViewRequests

NextViews ==
    \/ \E action \in Actions : ViewDispatch(action)
    \/ \E load \in pending, dictionary \in Tables : Resolve(load, dictionary)
    \/ \E load \in pending : Reject(load)
    \/ \E comp \in Comps : Mount(comp)
    \/ \E comp \in Comps : Unmount(comp)

SpecViews == Init /\ [][NextViews]_vars

\* the behaviours in which every load resolves
NextResolving ==
    \/ \E action \in Actions : Dispatch(action)
    \/ \E load \in pending, dictionary \in Tables : Resolve(load, dictionary)
    \/ \E comp \in OneComp : Mount(comp)
    \/ \E comp \in OneComp : Unmount(comp)

SpecResolving == Init /\ [][NextResolving]_vars

\* requests for a language and loads that resolve
NextRecorded ==
    \/ \E language \in Langs : Dispatch(switchLangActionCreator(String(language)))
    \/ \E load \in pending, dictionary \in Tables : Resolve(load, dictionary)

\* the behaviours in which every load resolves, with the log recorded
SpecRecorded == InitRecorded /\ [][NextRecorded]_vars

\* a load in flight resolves, with one and the same table
ResolveSome == \E load \in pending : Resolve(load, "t1")

\* requests for a language and loads that resolve
NextLive ==
    \/ \E language \in Langs : Dispatch(switchLangActionCreator(String(language)))
    \/ ResolveSome

\* the behaviours in which every load in flight resolves in the end: a promise that
\* can settle is not left unsettled for ever
SpecLive == Init /\ [][NextLive]_vars /\ WF_vars(ResolveSome)

\* a dispatch in a behaviour with failures and patches
LoaderDispatch(action) ==
    /\ Dispatch(action)
    /\ Len(requests') <= MaxLoaderRequests

\* the patches that name every field
WholePatches == {changes \in PartialStates : changes.given = StateKeys}

\* requests for a language, loads that resolve or fail, and patches of the whole store
NextLoader ==
    \/ \E language \in Langs : LoaderDispatch(switchLangActionCreator(String(language)))
    \/ ResolveSome
    \/ \E load \in pending : Reject(load)
    \/ \E changes \in WholePatches, updateComponents \in BOOLEAN :
            PatchState(changes, updateComponents)

\* every way the loader could be reached: requests, settled loads and patchState
SpecLoader == Init /\ [][NextLoader]_vars

\* what a loader may resolve with: a table, or a value like null
Results == Tables \cup {null}

\* requests for a language and loads that resolve with any result
NextResults ==
    \/ \E language \in Langs : Dispatch(switchLangActionCreator(String(language)))
    \/ \E load \in pending, dictionary \in Results : Resolve(load, dictionary)

\* the behaviours of a loader that may resolve with a value like null
SpecResults == Init /\ [][NextResults]_vars

(***************************************************************************)
(* What the last handler was and did.                                      *)
(***************************************************************************)
\* positions in effects of the events named e
Calls(e) == {i \in DOMAIN effects : effects[i].e = e}

\* the names of the events of the last handler, in order
Trace == [i \in DOMAIN effects |-> effects[i].e]

Dispatched == op.kind = "dispatch"

SwitchDispatched == Dispatched /\ op.action.type = switchLangActionType

\* the payload of the last dispatched action, as a language code
Target == op.action.payload.v

\* the last handler was a switch request with a string payload other than currentLang
Accepted ==
    /\ SwitchDispatched
    /\ TypeOf(op.action.payload) = "string"
    /\ Target # pre.currentLang

\* the last handler was a switch request for the language that was current
NoOpRequest ==
    /\ SwitchDispatched
    /\ TypeOf(op.action.payload) = "string"
    /\ Target = pre.currentLang

InvalidRequest == SwitchDispatched /\ TypeOf(op.action.payload) # "string"

\* the last handler was the then-callback of a cache-miss load
MissResolved == op.kind = "resolve" /\ op.load.kind = "miss"

\* the most recently accepted switch request
LastRequest == requests[Len(requests)]

(***************************************************************************)
(* Claims.                                                                 *)
(***************************************************************************)

\* C1: race suppression. When the load of a cache-miss request for A
\* resolves and the most recently accepted request is for a different
\* language B, the resolution leaves currentLang and loadingLang as B's
\* request or B's resolution set them, does not invoke endSwitchCallback,
\* and stores the resolved dictionary in dictionaries[A].
C1_RaceSuppression ==
    (MissResolved /\ LastRequest # op.load.lang) =>
        /\ __state.currentLang = pre.currentLang
        /\ __state.loadingLang = pre.loadingLang
        /\ __state.loadingLang # op.load.lang
        /\ Calls("endSwitchCallback") = {}
        /\ Calls("currentLang=") = {}
        /\ __state.dictionaries[op.load.lang] = op.value

\* A's load resolves while B, requested later, is still loading
C1_Witness ==
    /\ MissResolved
    /\ LastRequest # op.load.lang
    /\ options.endSwitchCallback
    /\ __state.loadingLang = LastRequest
    /\ pre.dictionaries[op.load.lang] # op.value

\* C2: when a cache-miss load for T resolves, the switch is applied iff
\* loadingLang = T at that moment. Applied: currentLang = T, loadingLang =
\* null, endSwitchCallback(T, loaded dictionary) is invoked (when
\* configured) and the components are updated. Not applied: currentLang
\* and loadingLang are unchanged, no endSwitchCallback, no update.
C2_ApplyIffStillLoading ==
    MissResolved =>
        IF pre.loadingLang = op.load.lang
        THEN /\ __state.currentLang = op.load.lang
             /\ __state.loadingLang = null
             /\ Cardinality(Calls("endSwitchCallback")) =
                    (IF options.endSwitchCallback THEN 1 ELSE 0)
             /\ \A i \in Calls("endSwitchCallback") :
                    /\ effects[i].lang = op.load.lang
                    /\ effects[i].dict = op.value
             /\ Cardinality(Calls("forceUpdate")) = 1
             /\ \A i \in Calls("forceUpdate") : effects[i].comps = translatedComponents
        ELSE /\ __state.currentLang = pre.currentLang
             /\ __state.loadingLang = pre.loadingLang
             /\ Calls("currentLang=") = {}
             /\ Calls("loadingLang=") = {}
             /\ Calls("endSwitchCallback") = {}
             /\ Calls("forceUpdate") = {}

\* a load resolves while its language is still the loading one
C2_Witness ==
    /\ MissResolved
    /\ pre.loadingLang = op.load.lang
    /\ pre.currentLang \notin {null, op.load.lang}
    /\ options.endSwitchCallback
    /\ translatedComponents # {}

\* C3: from the default state, under any requests and resolutions,
\* currentLang when non-null has an entry in dictionaries, and the entry
\* is already there at the moment currentLang is assigned.
C3_CurrentHasDictionary ==
    /\ __state.currentLang # null =>
            __state.dictionaries[__state.currentLang] # undefined
    /\ \A i \in Calls("currentLang=") :
            effects[i].state.dictionaries[effects[i].lang] # undefined

\* a resolution stores the first dictionary of a language and makes it current
C3_Witness ==
    /\ MissResolved
    /\ pre.dictionaries[op.load.lang] = undefined
    /\ __state.currentLang = op.load.lang
    /\ Calls("currentLang=") # {}

\* C4: a switch request for the current language does nothing but forward
\* the action: no loader call, no callback, no update, store unchanged.
C4_CurrentLangNoOp ==
    NoOpRequest =>
        /\ __state = pre
        /\ Trace = <<"next">>
        /\ effects[1].lang = Target

\* the current language is requested while another one is loading
C4_Witness ==
    /\ NoOpRequest
    /\ __state.loadingLang \notin {null, Target}
    /\ \E load \in pending : load.lang = __state.loadingLang
    /\ options.startSwitchCallback

\* C5: a switch action with a non-string payload throws and does nothing
\* else: store unchanged, no callback, no loader call, no update, no next.
C5_InvalidPayloadThrows ==
    InvalidRequest =>
        /\ __state = pre
        /\ Trace = <<"throw">>

\* a non-string payload is dispatched with startSwitchCallback configured
C5_Witness ==
    /\ InvalidRequest
    /\ options.startSwitchCallback
    /\ __state.currentLang # null
    /\ translatedComponents # {}

\* C6: an action of another type is forwarded to next and has no other
\* effect: store unchanged, no loader call, no callback, no update.
C6_OtherActionPassThrough ==
    (Dispatched /\ op.action.type # switchLangActionType) =>
        /\ __state = pre
        /\ Trace = <<"next">>
        /\ effects[1].lang = op.action.payload.v

\* another action is dispatched while a component is mounted and a load is in flight
C6_Witness ==
    /\ Dispatched
    /\ op.action.type # switchLangActionType
    /\ translatedComponents # {}
    /\ pending # {}

\* C7: an accepted request that is a cache miss (no entry for the target,
\* or cache = false) sets loadingLang to the target, leaves currentLang and
\* dictionaries unchanged, calls the loader once with the target and
\* updates the components, all before next is called.
C7_CacheMissSetup ==
    (Accepted /\ (~Truthy(pre.dictionaries[Target]) \/ ~options.cache)) =>
        /\ __state.loadingLang = Target
        /\ __state.currentLang = pre.currentLang
        /\ __state.dictionaries = pre.dictionaries
        /\ Cardinality(Calls("requestFunc")) = 1
        /\ \A i \in Calls("requestFunc") : effects[i].lang = Target
        /\ [options |-> options, lang |-> Target, kind |-> "miss",
                   id |-> issued, req |-> Len(requests)]
                \in pending
        /\ Cardinality(Calls("forceUpdate")) = 1
        /\ \A i \in Calls("forceUpdate") :
                /\ effects[i].state.loadingLang = Target
                /\ effects[i].comps = translatedComponents
        /\ effects[Len(effects)].e = "next"
        /\ Cardinality(Calls("next")) = 1

\* a language without dictionary is requested while another one is current
C7_Witness ==
    /\ Accepted
    /\ options.cache
    /\ pre.dictionaries[Target] = undefined
    /\ pre.currentLang # null
    /\ translatedComponents # {}

\* C8: with cache = true, an accepted request for a language with a cached
\* dictionary sets currentLang to the target and loadingLang to null, also
\* while another language is loading, and does not call the loader when
\* updateCacheOnSwitch = false.
C8_CacheHitSwitch ==
    (Accepted /\ options.cache /\ Truthy(pre.dictionaries[Target])) =>
        /\ __state.currentLang = Target
        /\ __state.loadingLang = null
        /\ __state.dictionaries = pre.dictionaries
        /\ ~options.updateCacheOnSwitch => Calls("requestFunc") = {}

\* a cached language is requested while another language is loading
C8_Witness ==
    /\ Accepted
    /\ options.cache
    /\ ~options.updateCacheOnSwitch
    /\ Truthy(pre.dictionaries[Target])
    /\ pre.loadingLang \notin {null, Target}
    /\ \E load \in pending : load.lang = pre.loadingLang /\ load.kind = "miss"

\* C9: with cache = true and updateCacheOnSwitch = false, once a load for
\* X has resolved with a dictionary no later switch request calls the
\* loader for X.
C9_CachedNotReloaded ==
    (options.cache /\ ~options.updateCacheOnSwitch /\ Dispatched) =>
        \A i \in Calls("requestFunc") : effects[i].lang \notin resolved

\* X, then Y, then X again, accepted after a load for X has resolved
C9_Witness ==
    /\ options.cache
    /\ ~options.updateCacheOnSwitch
    /\ Accepted
    /\ Target \in resolved
    /\ Len(requests) = 3
    /\ requests[1] = Target
    /\ requests[2] # Target
    /\ issued = 2

\* C10: with cache = false every accepted request calls the loader exactly
\* once and takes the cache-miss path, also when dictionaries has an entry
\* for the target: the loader calls are as many as the accepted requests.
C10_NoCacheAlwaysLoads ==
    ~options.cache =>
        /\ issued = Len(requests)
        /\ Accepted =>
            /\ Cardinality(Calls("requestFunc")) = 1
            /\ \A i \in Calls("requestFunc") : effects[i].lang = Target
            /\ [options |-> options, lang |-> Target, kind |-> "miss",
                   id |-> issued, req |-> Len(requests)]
                    \in pending
            /\ __state.loadingLang = Target
            /\ __state.currentLang = pre.currentLang

\* X, Y, X, each requested after the previous one resolved: three loader calls
C10_Witness ==
    /\ ~options.cache
    /\ Accepted
    /\ requests = <<"en", "it", "en">>
    /\ pre.currentLang = "it"
    /\ Truthy(pre.dictionaries["en"])
    /\ Cardinality(pending) = 1
    /\ issued = 3

\* the last handler was the then-callback of a background load
RefreshResolved == op.kind = "resolve" /\ op.load.kind = "refresh"

\* the last handler was an accepted request that took the cache-hit branch
AcceptedHit == Accepted /\ options.cache /\ Truthy(pre.dictionaries[Target])

\* the loads that the last accepted request issued and that are still in flight
OwnLoads == {load \in pending : load.req = Len(requests)}

\* C11: with cache = true and updateCacheOnSwitch = true a switch to a
\* cached language X makes X current at once with the old cached
\* dictionary and issues one background load; the resolution of a
\* background load only overwrites dictionaries[X] and updates the
\* components: currentLang and loadingLang stay, no endSwitchCallback.
C11_BackgroundRefresh ==
    /\ (AcceptedHit /\ options.updateCacheOnSwitch) =>
            /\ __state.currentLang = Target
            /\ __state.dictionaries = pre.dictionaries
            /\ \A c \in translatedComponents :
                    rendered[c].dictionary = pre.dictionaries[Target]
            /\ Cardinality(Calls("requestFunc")) = 1
            /\ \A i \in Calls("requestFunc") : effects[i].lang = Target
            /\ Cardinality(OwnLoads) = 1
            /\ \A load \in OwnLoads : load.kind = "refresh" /\ load.lang = Target
    /\ RefreshResolved =>
            /\ __state = [pre EXCEPT !.dictionaries[op.load.lang] = op.value]
            /\ Trace = <<"dictionaries[]=", "forceUpdate">>
            /\ effects[2].comps = translatedComponents

\* a background load replaces the dictionary of the language it made current
C11_Witness ==
    /\ RefreshResolved
    /\ options.endSwitchCallback
    /\ pre.dictionaries[op.load.lang] # op.value
    /\ pre.currentLang = op.load.lang
    /\ translatedComponents # {}

\* C12: startSwitchCallback is invoked exactly once for every accepted
\* request, with the target, as the first thing the dispatch does (before
\* any write to the store and before the loader call); never for a no-op,
\* an invalid or another action, nor when a load settles.
C12_StartCallbackOncePerAccepted ==
    /\ Calls("startSwitchCallback") =
            (IF Accepted /\ options.startSwitchCallback THEN {1} ELSE {})
    /\ \A i \in Calls("startSwitchCallback") :
            /\ effects[i].lang = Target
            /\ effects[i].state = pre
            /\ \A j \in Calls("requestFunc") \cup Calls("currentLang=")
                        \cup Calls("loadingLang=") \cup Calls("dictionaries[]=") : i < j

\* an accepted request with startSwitchCallback configured changes the store
C12_Witness ==
    /\ Accepted
    /\ options.startSwitchCallback
    /\ pre.currentLang # null
    /\ __state # pre
    /\ Calls("requestFunc") # {}

\* C13: at every invocation endSwitchCallback(L, d) the store has
\* currentLang = L, loadingLang = null and dictionaries[L] = d; inside a
\* dispatch it is invoked only on a cache hit (once), on a cache miss only
\* when the load resolves.
C13_EndCallbackSeesSwitchedStore ==
    /\ \A i \in Calls("endSwitchCallback") :
            /\ effects[i].state.currentLang = effects[i].lang
            /\ effects[i].state.loadingLang = null
            /\ effects[i].state.dictionaries[effects[i].lang] = effects[i].dict
    /\ (Dispatched /\ Calls("endSwitchCallback") # {}) => AcceptedHit
    /\ (AcceptedHit /\ options.endSwitchCallback) =>
            /\ Cardinality(Calls("endSwitchCallback")) = 1
            /\ \A i \in Calls("endSwitchCallback") : effects[i].lang = Target
    /\ (~Dispatched /\ Calls("endSwitchCallback") # {}) => MissResolved

\* a cache hit with endSwitchCallback configured while another language was loading
C13_Witness ==
    /\ AcceptedHit
    /\ options.endSwitchCallback
    /\ pre.loadingLang # null
    /\ Calls("endSwitchCallback") # {}

\* C14: every switch action with a string payload is forwarded to next
\* exactly once, as the last thing the handler does: after the store
\* writes, the callbacks, the loader call and the update of the
\* components, and while the load it issued is still in flight.
C14_ForwardedOnceAtEnd ==
    (SwitchDispatched /\ TypeOf(op.action.payload) = "string") =>
        /\ Calls("next") = {Len(effects)}
        /\ effects[Len(effects)].lang = Target
        /\ effects[Len(effects)].state = __state
        /\ Accepted => /\ Cardinality(OwnLoads) = Cardinality(Calls("requestFunc"))
                       /\ Calls("forceUpdate") # {}

\* an accepted cache miss with a start callback, a mounted component and a loader call
C14_Witness ==
    /\ Accepted
    /\ options.startSwitchCallback
    /\ translatedComponents # {}
    /\ Calls("requestFunc") # {}
    /\ Len(effects) = 5

\* C15: every load resolution (cache miss, superseded, background), with
\* cache enabled or not, leaves dictionaries[target] equal to the value
\* just resolved.
C15_ResolutionStoresDictionary ==
    op.kind = "resolve" => __state.dictionaries[op.load.lang] = op.value

\* a superseded load overwrites a cached dictionary with cache = false
C15_Witness ==
    /\ MissResolved
    /\ ~options.cache
    /\ pre.loadingLang # op.load.lang
    /\ Truthy(pre.dictionaries[op.load.lang])
    /\ pre.dictionaries[op.load.lang] # op.value

\* C16: loadingLang goes from non-null to null only in an accepted
\* cache-hit request or in the resolution of a cache-miss load whose
\* target is loadingLang at that moment.
C16_LoadingClearedOnlyByHitOrMatch ==
    (pre.loadingLang # null /\ __state.loadingLang = null) =>
        \/ AcceptedHit
        \/ MissResolved /\ op.load.lang = pre.loadingLang

\* the matching load resolves and clears loadingLang while another load is in flight
C16_Witness ==
    /\ pre.loadingLang # null
    /\ __state.loadingLang = null
    /\ MissResolved
    /\ pending # {}


\* the props the claim describes for a store state
ExpectedProps(state) ==
    [currentLang |-> state.currentLang,
     loadingLang |-> state.loadingLang,
     dictionary |->
        IF state.currentLang # null /\ state.dictionaries[state.currentLang] # undefined
        THEN state.dictionaries[state.currentLang]
        ELSE EmptyObject]

\* C20: the props a component receives when it renders are a function of
\* the store: currentLang and loadingLang as stored, dictionary the entry of
\* currentLang when there is one, otherwise the empty mapping.
C20_PropsFromStore ==
    /\ op.kind = "mount" => rendered[op.comp] = ExpectedProps(__state)
    /\ Calls("forceUpdate") # {} =>
            \A c \in translatedComponents : rendered[c] = ExpectedProps(__state)

\* a mounted component is updated with the dictionary a load just resolved with
C20_Witness ==
    /\ MissResolved
    /\ Calls("forceUpdate") # {}
    /\ \E c \in translatedComponents :
            /\ rendered[c].dictionary = op.value
            /\ rendered[c].currentLang = op.load.lang

\* the last handler was a call of patchState
PatchCalled == op.kind = "patchState"

\* the changes of the last call of patchState
Changes == op.action.payload

\* C17: patchState(changes, notify) writes the given fields into the store and invokes
\* neither the loader nor startSwitchCallback nor endSwitchCallback; with notify omitted
\* or false no component is updated and every view keeps the props it had before the
\* patch; with notify true every registered component is updated, as the last step of
\* the call, and then shows the patched store.
C17_PatchStateWritesOnly ==
    PatchCalled =>
        /\ \A k \in Changes.given : __state[k] = Changes[k]
        /\ Calls("requestFunc") = {}
        /\ Calls("startSwitchCallback") = {}
        /\ Calls("endSwitchCallback") = {}
        /\ IF op.value = "updateComponents"
           THEN /\ Calls("forceUpdate") = {Len(effects)}
                /\ effects[Len(effects)].comps = translatedComponents
                /\ \A c \in translatedComponents : rendered[c] = ExpectedProps(__state)
           ELSE /\ Calls("forceUpdate") = {}
                /\ rendered = preRendered

\* a patch without notify changes the current language under a mounted component, whose
\* view keeps the props of the store before the patch
C17_Witness ==
    /\ PatchCalled
    /\ op.value = undefined
    /\ "currentLang" \in Changes.given
    /\ Changes.currentLang # pre.currentLang
    /\ \E c \in translatedComponents :
            /\ rendered[c] = ExpectedProps(pre)
            /\ rendered[c] # ExpectedProps(__state)

\* the last handler was a call of createTranslationsMiddleware
Created == op.kind = "create"

\* C18: createTranslationsMiddleware with an initial state sets each of dictionaries,
\* currentLang and loadingLang to the value of the initial state when it has the field
\* and to the default ({} / null / null) when it has not, each field on its own, and
\* does not invoke the loader; while the store is as an initial state with currentLang X
\* and dictionaries[X] made it, a switch request for X does nothing but forward the action.
C18_InitialStatePerField ==
    /\ (Created /\ op.action.payload.passed) =>
            /\ \A k \in StateKeys :
                    __state[k] = IF k \in op.action.payload.given
                                 THEN op.action.payload[k] ELSE defaultState[k]
            /\ Calls("requestFunc") = {}
    /\ ( /\ SwitchDispatched
         /\ "currentLang" \in initial.given
         /\ TypeOf(op.action.payload) = "string"
         /\ Target = initial.currentLang
         /\ initial.dictionaries[Target] # undefined
         /\ \A k \in StateKeys : pre[k] = initial[k] ) =>
            /\ Trace = <<"next">>
            /\ __state = pre

\* a coordinator was created with currentLang and dictionaries but no loadingLang, and
\* the next call is a switch request for that language
C18_Witness ==
    /\ SwitchDispatched
    /\ initial.passed
    /\ initial.given = {"dictionaries", "currentLang"}
    /\ TypeOf(op.action.payload) = "string"
    /\ Target = initial.currentLang
    /\ initial.dictionaries[Target] # undefined
    /\ \A k \in StateKeys : pre[k] = initial[k]
    /\ storeOps = 1

\* C19: createTranslationsMiddleware without an initial state resets the store to
\* dictionaries = {}, currentLang = null, loadingLang = null, whatever the store held
\* before.
C19_CreateResetsStore ==
    (Created /\ ~op.action.payload.passed) => __state = defaultState

\* a coordinator is created without an initial state while the store of the one before
\* holds a current language and its loaded dictionary
C19_Witness ==
    /\ Created
    /\ ~op.action.payload.passed
    /\ pre.currentLang # null
    /\ pre.dictionaries[pre.currentLang] # undefined
    /\ __state # pre

\* C21: an update of the translated components updates every component that is
\* registered at that moment, once, and no other; a component is registered from its
\* mount to its unmount, so one that was unmounted before an update is not updated by it.
C21_UpdateRegisteredOnly ==
    /\ Cardinality(Calls("forceUpdate")) <= 1
    /\ \A i \in Calls("forceUpdate") :
            /\ effects[i].comps = translatedComponents
            /\ \A c \in translatedComponents : rendered[c] = render(effects[i].state)
            /\ \A c \in Comps \ translatedComponents : rendered[c] = NotRendered
    /\ op.kind = "mount" => op.comp \in translatedComponents
    /\ op.kind = "unmount" => op.comp \notin translatedComponents
    /\ \A c \in Comps : c \in translatedComponents <=> rendered[c] # NotRendered

\* the resolution of a load updates the one component that is mounted and not the other,
\* after the request of that load has updated the components a first time
C21_Witness ==
    /\ MissResolved
    /\ Calls("forceUpdate") # {}
    /\ translatedComponents = {"c2"}
    /\ rendered["c1"] = NotRendered
    /\ rendered["c2"].currentLang = op.load.lang
    /\ rendered["c2"] # preRendered["c2"]

\* the last handler was the rejection of a cache-miss load
MissRejected == op.kind = "reject" /\ op.load.kind = "miss"

\* C22: when the load of a cache-miss request fails nothing happens: the store (with
\* loadingLang still the target), the views and the other loads stay as they are, no
\* callback runs and no load is issued again; a switch request for the language that
\* is left loading is accepted and issues one fresh load for it.
C22_FailedLoadChangesNothing ==
    /\ MissRejected =>
            /\ __state = pre
            /\ rendered = preRendered
            /\ effects = <<>>
            /\ op.load \notin pending
    /\ (SwitchDispatched /\ TypeOf(op.action.payload) = "string"
            /\ Target = pre.loadingLang) =>
            /\ Accepted
            /\ Cardinality(Calls("requestFunc")) = 1
            /\ \A i \in Calls("requestFunc") : effects[i].lang = Target
            /\ \E load \in pending :
                    load.id = issued /\ load.lang = Target /\ load.kind = "miss"

\* a language is requested again while it is left loading by a load that failed: the
\* fresh load is the only one in flight for it
C22_Witness ==
    /\ Accepted
    /\ Target = pre.loadingLang
    /\ {load \in pending : load.lang = Target} =
            {load \in pending : load.id = issued}
    /\ Cardinality(pending) = 1
    /\ Len(requests) = 2

\* the last handler, a resolution, applied the switch
SwitchApplied ==
    \/ Calls("currentLang=") # {}
    \/ Calls("endSwitchCallback") # {}

\* the requests so far are A, B, A and the load of the first resolved before any other
\* load settled
FirstOfABAResolved ==
    /\ MissResolved
    /\ Len(requests) = 3
    /\ requests[1] = requests[3]
    /\ requests[2] # requests[1]
    /\ op.load.req = 1
    /\ Cardinality(pending) = 2

C24_LastRequestWins ==
    (pending = {} /\ lastSwitch # null) => __state.currentLang = lastSwitch

\* the last handler was a switch request with a string payload
ValidRequest == SwitchDispatched /\ TypeOf(op.action.payload) = "string"

\* C25 as claimed: with cache = false every switch request for a language calls the
\* loader afresh, also a request for the language that is current.
C25_AsClaimed ==
    (~options.cache /\ ValidRequest) =>
        /\ Cardinality(Calls("requestFunc")) = 1
        /\ \A i \in Calls("requestFunc") : effects[i].lang = Target

\* C25 as amended: with cache = false every switch request for a language other than
\* the current one calls the loader afresh, once, however often the language was loaded
\* before; a request for the current language does not call the loader.
C25_NoCacheLoadsUnlessCurrent ==
    (~options.cache /\ ValidRequest) =>
        /\ Cardinality(Calls("requestFunc")) = (IF Target = pre.currentLang THEN 0 ELSE 1)
        /\ \A i \in Calls("requestFunc") : effects[i].lang = Target
        /\ Target # pre.currentLang =>
                \E load \in pending :
                    load.id = issued /\ load.lang = Target /\ load.kind = "miss"
        /\ Target = pre.currentLang => __state = pre

\* with the cache off a language that was loaded before and is not current is
\* requested again, and the loader is called again
C25_Witness ==
    /\ ~options.cache
    /\ options.updateCacheOnSwitch
    /\ Accepted
    /\ Target \in resolved
    /\ Truthy(pre.dictionaries[Target])
    /\ Calls("requestFunc") # {}

\* the last handler was an accepted request that took the cache-miss branch
AcceptedMiss == Accepted /\ ~(options.cache /\ Truthy(pre.dictionaries[Target]))

\* every event named a comes before every event named b in the last handler
Before(a, b) == \A i \in Calls(a), j \in Calls(b) : i < j

\* C26 as claimed: on a cache miss loadingLang is set to the target, then the
\* components are updated, and only then is the loader called for the target.
C26_AsClaimed ==
    AcceptedMiss =>
        /\ Calls("loadingLang=") # {} /\ Calls("forceUpdate") # {}
        /\ Calls("requestFunc") # {}
        /\ Before("loadingLang=", "forceUpdate")
        /\ Before("forceUpdate", "requestFunc")

\* C26 as amended: on a cache miss loadingLang is set to the target, then the loader is
\* called for the target, then the components are updated, then the action is forwarded;
\* each of the four happens once, and loader and components see loadingLang = target.
C26_MissOrder ==
    AcceptedMiss =>
        /\ \A e \in {"loadingLang=", "requestFunc", "forceUpdate", "next"} :
                Cardinality(Calls(e)) = 1
        /\ Before("loadingLang=", "requestFunc")
        /\ Before("requestFunc", "forceUpdate")
        /\ Before("forceUpdate", "next")
        /\ \A i \in Calls("requestFunc") \cup Calls("forceUpdate") :
                effects[i].state.loadingLang = Target
        /\ \A i \in Calls("requestFunc") : effects[i].lang = Target

\* a cache miss with a mounted component, which the update shows the loading language
C26_Witness ==
    /\ AcceptedMiss
    /\ pre.currentLang # null
    /\ \E c \in translatedComponents :
            /\ rendered[c].loadingLang = Target
            /\ preRendered[c].loadingLang # Target
    /\ \E load \in pending : load.id = issued /\ load.lang = Target

\* the call named e if it is made, as a piece of a trace
If(made, e) == IF made THEN <<e>> ELSE <<>>

\* C27: within the dispatch of a cache hit currentLang and loadingLang are written,
\* then endSwitchCallback is called with the cached dictionary, then (if
\* updateCacheOnSwitch) the background load is issued, then the components are updated,
\* then the action is forwarded; within the resolution of a cache-miss load that is
\* still awaited the dictionary and the two fields are written, then endSwitchCallback
\* is called, then the components are updated.
C27_HitAndResolutionOrder ==
    /\ AcceptedHit =>
            /\ Trace = If(options.startSwitchCallback, "startSwitchCallback")
                       \o <<"currentLang=", "loadingLang=">>
                       \o If(options.endSwitchCallback, "endSwitchCallback")
                       \o If(options.updateCacheOnSwitch, "requestFunc")
                       \o <<"forceUpdate", "next">>
            /\ \A i \in Calls("endSwitchCallback") :
                    /\ effects[i].dict = pre.dictionaries[Target]
                    /\ effects[i].state.currentLang = Target
                    /\ effects[i].state.loadingLang = null
    /\ (MissResolved /\ pre.loadingLang = op.load.lang) =>
            /\ Trace = <<"dictionaries[]=", "currentLang=", "loadingLang=">>
                       \o If(options.endSwitchCallback, "endSwitchCallback")
                       \o <<"forceUpdate">>
            /\ \A i \in Calls("endSwitchCallback") :
                    /\ effects[i].dict = op.value
                    /\ effects[i].state.currentLang = op.load.lang

\* a cache hit that runs all the steps: both callbacks, the background load, a mounted
\* component
C27_Witness ==
    /\ AcceptedHit
    /\ Len(effects) = 7
    /\ translatedComponents # {}
    /\ \E load \in pending : load.kind = "refresh" /\ load.id = issued

\* currentLang, when non-null, has an entry in dictionaries
CurrentHasEntry(state) ==
    state.currentLang # null => state.dictionaries[state.currentLang] # undefined

\* C28: every call of patchState preserves "currentLang, when non-null, has an entry in
\* dictionaries", and createTranslationsMiddleware establishes it from every partial
\* initial state.
C28_PatchAndCreateKeepEntry ==
    /\ (PatchCalled /\ CurrentHasEntry(pre)) => CurrentHasEntry(__state)
    /\ Created => CurrentHasEntry(__state)

\* the last handler was the then-callback of a load that a coordinator before the
\* present one issued
PreviousResolved == op.kind = "resolve" /\ op.load.id <= issuedBefore

\* C29: the resolution of a load that an earlier coordinator issued changes neither
\* dictionaries nor currentLang nor loadingLang of the store of the present coordinator
\* and calls no callback.
C29_PreviousLoadsLeaveStore ==
    PreviousResolved =>
        /\ __state = pre
        /\ Calls("startSwitchCallback") = {}
        /\ Calls("endSwitchCallback") = {}

\* the cache-miss loads in flight for the language of the last handler's load
Twins == {load \in pending : load.lang = op.load.lang /\ load.kind = "miss"}

\* C30: a language that is loading and has no dictionary yet, requested again, is
\* accepted again: startSwitchCallback is called and a second load is in flight.  The
\* one of the two loads that resolves first applies the switch and calls
\* endSwitchCallback once; the one that resolves after it only overwrites the
\* dictionary of the language.
C30_SameLanguageTwice ==
    /\ (ValidRequest /\ Target = pre.loadingLang /\ pre.dictionaries[Target] = undefined) =>
            /\ Accepted
            /\ Cardinality(Calls("startSwitchCallback")) =
                    (IF options.startSwitchCallback THEN 1 ELSE 0)
            /\ Cardinality(Calls("requestFunc")) = 1
            /\ \E load \in pending : load.id = issued /\ load.lang = Target
    /\ (MissResolved /\ pre.loadingLang = op.load.lang /\ Twins # {}) =>
            /\ __state.currentLang = op.load.lang
            /\ __state.loadingLang = null
            /\ __state.dictionaries[op.load.lang] = op.value
            /\ Cardinality(Calls("endSwitchCallback")) =
                    (IF options.endSwitchCallback THEN 1 ELSE 0)
    /\ (MissResolved /\ pre.currentLang = op.load.lang /\ pre.loadingLang = null) =>
            /\ Trace = <<"dictionaries[]=">>
            /\ __state = [pre EXCEPT !.dictionaries[op.load.lang] = op.value]

\* X was requested twice; the load of the second request resolved first and applied
\* the switch, and now the load of the first request resolves with another dictionary
C30_Witness ==
    /\ MissResolved
    /\ Len(requests) = 2
    /\ requests[1] = requests[2]
    /\ op.load.req = 1
    /\ issued = 2
    /\ pending = {}
    /\ pre.currentLang = op.load.lang
    /\ pre.dictionaries[op.load.lang] \notin {undefined, op.value}
    /\ options.endSwitchCallback

(***************************************************************************)
(* Claims about the whole behaviour: the log.                              *)
(***************************************************************************)
\* no load for language is in flight
Settled(language) == \A load \in pending : load.lang # language

\* C31: the cache holds the latest value. Once every load for a language X that was
\* in flight has resolved, dictionaries[X] is the result of the loader call for X that
\* was issued last, in whichever order the loads for X resolved.
C31_CacheHoldsLatest ==
    \A language \in Langs :
        (log.latest[language].id > 0 /\ Settled(language)) =>
            /\ log.latest[language].done
            /\ __state.dictionaries[language] = log.latest[language].value

(***************************************************************************)
(* Claims about the cache test and the options.                            *)
(***************************************************************************)
\* the last handler took the branch of a cache hit: it wrote currentLang
HandledAsHit == Calls("currentLang=") # {}

\* the last handler took the branch of a cache miss: it wrote loadingLang = target
HandledAsMiss ==
    \E i \in Calls("loadingLang=") : effects[i].lang = Target

\* C32: an accepted request is handled as a cache hit exactly when dictionaries has
\* an entry for the target and cache is true, whatever value the loader resolved
\* with, a value like null included; otherwise it is handled as a cache miss.
C32_HitIffEntry ==
    Accepted =>
        /\ HandledAsHit <=> (pre.dictionaries[Target] # undefined /\ options.cache)
        /\ HandledAsMiss <=> ~HandledAsHit

\* what a run of a handler leaves that can be observed: the store, the props the
\* components show, the calls and writes it made, and the loads in flight
Observable(m) ==
    [rendered |-> m.rendered, issued |-> m.issued, requests |-> m.requests,
     effects |-> m.effects, state |-> m.state,
     loads |-> {[lang |-> load.lang, kind |-> load.kind, id |-> load.id,
                 req |-> load.req] : load \in m.pending}]

\* the options o with the other value of updateCacheOnSwitch
OtherUpdateCacheOnSwitch(o) == [o EXCEPT !.updateCacheOnSwitch = ~@]

\* the then-callback of load run on m
then(m, load, dictionary) ==
    IF load.kind = "miss"
    THEN thenMiss(m, load.lang, dictionary)
    ELSE thenRefresh(m, load.lang, dictionary)

\* C33: updateCacheOnSwitch takes effect only when cache is true. With cache = false,
\* from any state the coordinator reaches, every dispatch and every resolution of a
\* load in flight leaves the same store, the same props, the same loader calls,
\* callbacks and notifications in the same order, and the same loads in flight
\* whether updateCacheOnSwitch is true or false, so the two coordinators go through
\* the same states for every sequence of requests and resolutions.
C33_UpdateCacheOnSwitchNeedsCache ==
    ~options.cache =>
        /\ \A action \in Actions :
                Observable(middleware(Machine, action)) =
                Observable(middleware(
                    [Machine EXCEPT !.options = OtherUpdateCacheOnSwitch(@)], action))
        /\ \A load \in pending, dictionary \in Tables :
                LET m == [Machine EXCEPT !.pending = @ \ {load}]
                IN  Observable(then([m EXCEPT !.options = load.options],
                                    load, dictionary)) =
                    Observable(then(
                        [m EXCEPT !.options = OtherUpdateCacheOnSwitch(load.options)],
                        load, dictionary))
        /\ \A load \in pending : load.kind = "miss"

\* with cache = false and updateCacheOnSwitch = true a language that has a
\* dictionary was requested, and one load of a cache miss is in flight for it
C33_Witness ==
    /\ ~options.cache
    /\ options.updateCacheOnSwitch
    /\ Accepted
    /\ Truthy(pre.dictionaries[Target])
    /\ pending = {load \in pending : load.kind = "miss"}
    /\ \E load \in pending : load.lang = Target /\ load.id = issued

(***************************************************************************)
(* Claims about loadingLang and the loads in flight.                       *)
(***************************************************************************)
\* C34: when every load that is issued resolves in the end, and patchState is not
\* used, loadingLang of a coordinator that started from the default state is null
\* from some point on: after the last switch request it becomes null and stays null.
C34_LoadingEndsWhenLoadsResolve == <>[](__state.loadingLang = null)

\* after two or more requests the load that loadingLang waited for resolves, and no
\* load is left in flight
C34_Witness ==
    /\ MissResolved
    /\ pre.loadingLang = op.load.lang
    /\ __state.loadingLang = null
    /\ pending = {}
    /\ Len(requests) >= 2

\* the loader calls of the last handler
LoaderCalls == Calls("requestFunc")

\* C35: the loader is called only inside the handling of an accepted switch request,
\* with the target of that request, and at most once for it: once on a cache miss,
\* once on a cache hit if updateCacheOnSwitch is true and not at all if it is false.
\* A resolution, a failure, a request for the current language and patchState never
\* call it, and the calls made so far are those the accepted requests made.
C35_LoaderOnlyOnAccepted ==
    /\ \A i \in LoaderCalls : Accepted /\ effects[i].lang = Target
    /\ AcceptedMiss => Cardinality(LoaderCalls) = 1
    /\ AcceptedHit =>
            Cardinality(LoaderCalls) = (IF options.updateCacheOnSwitch THEN 1 ELSE 0)
    /\ (op.kind \in {"resolve", "reject", "patchState"} \/ NoOpRequest) =>
            LoaderCalls = {}
    /\ issued <= Len(requests)
    /\ \A load \in pending : load.lang = requests[load.req]

\* a cache hit with updateCacheOnSwitch calls the loader once, for its target, while
\* another load is in flight
C35_Witness ==
    /\ AcceptedHit
    /\ options.updateCacheOnSwitch
    /\ Cardinality(LoaderCalls) = 1
    /\ \E load \in pending : load.id < issued

\* the language that is loading, if any, has a cache-miss load in flight
LoadingHasLoad ==
    __state.loadingLang # null =>
        \E load \in pending : load.kind = "miss" /\ load.lang = __state.loadingLang

\* C36 as claimed: whenever loadingLang is non-null, a cache-miss load for that
\* language is in flight.
C36_AsClaimed == LoadingHasLoad

\* C36: from the default state and without patchState, a non-null loadingLang has a
\* cache-miss load for that language in flight until such a load fails: the only
\* step that leaves loadingLang naming a language nobody is fetching is the failure
\* of the last cache-miss load in flight for it, which leaves loadingLang as it is.
C36_LoadingHasLoadUntilFailure ==
    /\ LoadingHasLoad
    /\ [][(LoadingHasLoad /\ ~LoadingHasLoad') =>
                /\ op'.kind = "reject"
                /\ op'.load.kind = "miss"
                /\ op'.load.lang = __state.loadingLang
                /\ __state' = __state]_vars

\* the only load for the language that is loading has just failed
C36_Witness ==
    /\ MissRejected
    /\ __state.loadingLang = op.load.lang
    /\ ~LoadingHasLoad

\* C37: from the default state and without patchState, loadingLang, when it is
\* non-null, differs from currentLang in every state: no view is shown the same
\* language as the current one and the loading one.
C37_LoadingDiffersFromCurrent ==
    /\ __state.loadingLang # null => __state.loadingLang # __state.currentLang
    /\ \A comp \in translatedComponents :
            rendered[comp].loadingLang # null =>
                rendered[comp].loadingLang # rendered[comp].currentLang

\* with one language current another one is requested and is loading, and a
\* mounted component shows both
C37_Witness ==
    /\ AcceptedMiss
    /\ pre.currentLang # null
    /\ __state.currentLang = pre.currentLang
    /\ __state.loadingLang = Target
    /\ \E comp \in translatedComponents :
            /\ rendered[comp].currentLang = pre.currentLang
            /\ rendered[comp].loadingLang = Target

(***************************************************************************)
(* Claims about the views and the callbacks.                               *)
(***************************************************************************)
\* the last handler changed the dictionary of the language that is current
CurrentDictionaryChanged ==
    /\ __state.currentLang # null
    /\ __state.dictionaries[__state.currentLang] #
            pre.dictionaries[__state.currentLang]

\* C38: a step that changes dictionaries[currentLang] notifies the subscribers in
\* the same step, after the change, so that every mounted component shows the
\* dictionary the store holds for the current language.
C38_CurrentDictionaryChangeNotifies ==
    CurrentDictionaryChanged =>
        /\ \E i \in Calls("forceUpdate") : effects[i].state = __state
        /\ \A comp \in translatedComponents :
                rendered[comp].dictionary = ExpectedProps(__state).dictionary

\* the calls of one callback over the whole behaviour: the sum over the requests
RECURSIVE Total(_, _)
Total(counts, callback) ==
    IF counts = <<>> THEN 0
    ELSE counts[Len(counts)][callback] +
         Total(SubSeq(counts, 1, Len(counts) - 1), callback)

\* 1 if the callback is configured, 0 if it is not
Once(configured) == IF configured THEN 1 ELSE 0

\* C39: every accepted switch request leads to at most one call of endSwitchCallback:
\* exactly one if it is a cache hit or if its load resolves while loadingLang is
\* still its target, none while its load is in flight and none if its load resolves
\* after it was superseded; a background load adds none.  So at every point the
\* calls of endSwitchCallback are no more than the calls of startSwitchCallback
\* (for a coordinator that has both callbacks).
C39_EndAtMostOncePerRequest ==
    /\ Len(log.callbacks) = Len(requests)
    /\ \A r \in DOMAIN log.callbacks :
            /\ log.callbacks[r].start = Once(options.startSwitchCallback)
            /\ log.callbacks[r].end <= Once(options.endSwitchCallback)
    /\ AcceptedHit =>
            log.callbacks[Len(requests)].end = Once(options.endSwitchCallback)
    /\ AcceptedMiss => log.callbacks[Len(requests)].end = 0
    /\ (MissResolved /\ pre.loadingLang = op.load.lang) =>
            log.callbacks[op.load.req].end = Once(options.endSwitchCallback)
    /\ (MissResolved /\ pre.loadingLang # op.load.lang) =>
            log.callbacks[op.load.req].end = 0
    /\ RefreshResolved =>
            /\ log.callbacks[op.load.req].end = Once(options.endSwitchCallback)
            /\ Calls("endSwitchCallback") = {}
    /\ options.startSwitchCallback =>
            Total(log.callbacks, "end") <= Total(log.callbacks, "start")

\* with both callbacks, the load of one request was applied and called
\* endSwitchCallback, and now the load of a request that was superseded resolves
C39_Witness ==
    /\ options.startSwitchCallback
    /\ options.endSwitchCallback
    /\ MissResolved
    /\ pre.loadingLang # op.load.lang
    /\ log.callbacks[op.load.req].end = 0
    /\ \E r \in DOMAIN log.callbacks : log.callbacks[r].end = 1
    /\ Total(log.callbacks, "end") < Total(log.callbacks, "start")

(***************************************************************************)
(* Claims about patchState and the loads in flight.                        *)
(***************************************************************************)
\* the value of a field after a patch: the given one if the patch names the field
Patched(field) ==
    IF field \in Changes.given THEN Changes[field] ELSE pre[field]

\* C40: patchState replaces every top-level field the patch names with the given
\* value and leaves the other fields as they were; a patch with dictionaries
\* replaces the whole map, so entries of languages the patch does not have are
\* dropped; and a load that was in flight stores its result into the map the
\* store holds when it resolves, the new one after such a patch.
C40_PatchReplacesFields ==
    /\ PatchCalled =>
            /\ __state = [dictionaries |-> Patched("dictionaries"),
                          currentLang |-> Patched("currentLang"),
                          loadingLang |-> Patched("loadingLang")]
            /\ "dictionaries" \in Changes.given =>
                    \A l \in Langs :
                        Changes.dictionaries[l] = undefined =>
                            __state.dictionaries[l] = undefined
    /\ op.kind = "resolve" =>
            __state.dictionaries =
                [pre.dictionaries EXCEPT ![op.load.lang] = op.value]

\* a load for 'it' was in flight when a patch replaced dictionaries by a map with
\* 'en' only; it resolves and the map holds both
C40_Witness ==
    /\ op.kind = "resolve"
    /\ op.load.lang = "it"
    /\ op.load.id > issuedBefore
    /\ storeOps = 1
    /\ initial = NoInitialState
    /\ pre.dictionaries = [l \in Langs |-> IF l = "en" THEN "t1" ELSE undefined]
    /\ __state.dictionaries = [l \in Langs |-> IF l = "en" THEN "t1" ELSE op.value]

====
